---- MODULE Spec2Model ----
(***************************************************************************)
(* Model of yason's array builder (src/builder/array.rs).                  *)
(*                                                                         *)
(* The buffer is a sequence of bytes.  Rust positions are 0-based; the     *)
(* byte at Rust position p is bytes[p + 1].  Builders form a stack: the    *)
(* nested builder returned by push_array / push_object mutably borrows its *)
(* parent, so only the innermost live builder can be called.  A builder    *)
(* leaves the stack when finish consumes it (finish takes self by value,   *)
(* whatever it returns) or when it is dropped without finish.              *)
(* twin is an owning ArrayBuilder that is given every call the builders of  *)
(* the buffer are given, with the same inputs.                             *)
(***************************************************************************)
EXTENDS Integers, Sequences, FiniteSets, TLC

VARIABLES bytes, stack, phase, nodes, last, twin

vars == <<bytes, stack, phase, nodes, last, twin>>

----------------------------------------------------------------------------
(* Bounds of the model *)

\* largest element count declared at creation
MaxCount == 2
\* largest number of builders alive at once (nesting depth)
MaxDepth == 2
\* a push is only started while the buffer holds fewer bytes than this
MaxLen == 26
\* largest number of nodes created on one buffer
MaxNodes == 2

----------------------------------------------------------------------------
(* Constants of crate::binary and crate::DataType, imported at array.rs:3-11 *)

DATA_TYPE_SIZE == 1
ARRAY_SIZE == 4
OBJECT_SIZE == 4
ELEMENT_COUNT_SIZE == 2
VALUE_ENTRY_SIZE == 5
KEY_OFFSET_SIZE == 4
MAX_DATA_LENGTH_SIZE == 4
NUMBER_LENGTH_SIZE == 1
MAX_BINARY_SIZE == 18
DEFAULT_SIZE == 128

DT_Object == 1
DT_Array == 2
DT_String == 3
DT_Number == 4
DT_Bool == 5
DT_Null == 6

\* 2^16: value_count is a u16.  Offsets and sizes stay far below 2^31, where
\* the casts `as u32` and `as i32` change nothing.
U16 == 65536

----------------------------------------------------------------------------
(* Inputs *)

ElementCounts == 0..MaxCount
\* nested objects are declared empty: the object builder's push operations
\* live in builder/object.rs
ObjectCounts == {0}
\* "" and "abc" as UTF-8
Strings == {<< >>, <<97, 98, 99>>}
Numbers == {42}
\* content of the caller's buffer handed to ArrayRefBuilder::try_new
Prefixes == {<< >>, <<9>>}

----------------------------------------------------------------------------
(* Byte-level helpers: crate::vec::VecExt on Vec<u8> *)

RECURSIVE Pow256(_)
Pow256(i) == IF i = 0 THEN 1 ELSE 256 * Pow256(i - 1)

\* to_le_bytes of an unsigned integer of w bytes
LE(n, w) == [i \in 1..w |-> (n \div Pow256(i - 1)) % 256]

\* from_le_bytes
RECURSIVE FromLE(_)
FromLE(s) == IF s = << >> THEN 0 ELSE s[1] + 256 * FromLE(Tail(s))

\* the w bytes of b starting at Rust position pos
Slice(b, pos, w) == [i \in 1..w |-> b[pos + i]]

\* can the w bytes at Rust position pos be indexed
InRange(b, pos, w) == pos >= 0 /\ pos + w <= Len(b)

\* b[pos..pos + Len(s)].copy_from_slice(s)
WriteAt(b, pos, s) ==
    [i \in 1..Len(b) |-> IF i > pos /\ i <= pos + Len(s) THEN s[i - pos] ELSE b[i]]

Zeros(n) == [i \in 1..n |-> 0]

push_data_type(b, data_type) == Append(b, data_type)
skip_size(b) == b \o Zeros(ARRAY_SIZE)
push_u16(b, v) == b \o LE(v, ELEMENT_COUNT_SIZE)
skip_value_entry(b, n) == b \o Zeros(VALUE_ENTRY_SIZE * n)
skip_key_offset(b, n) == b \o Zeros(KEY_OFFSET_SIZE * n)
write_offset(b, offset, pos) == WriteAt(b, pos, LE(offset, 4))
write_total_size(b, size, pos) == WriteAt(b, pos, LE(size, ARRAY_SIZE))
write_data_type_by_pos(b, data_type, pos) == WriteAt(b, pos, <<data_type>>)

\* variable-width length prefix, 7 bits a byte
RECURSIVE EncodeLength(_)
EncodeLength(n) ==
    IF n < 128 THEN <<n>> ELSE <<128 + (n % 128)>> \o EncodeLength(n \div 128)

vec_push_string(b, value) == b \o EncodeLength(Len(value)) \o value

\* the opaque decimal codec: the digits of the magnitude, base 100
RECURSIVE EncodeDecimal(_)
EncodeDecimal(n) ==
    IF n = 0 THEN << >> ELSE EncodeDecimal(n \div 100) \o <<n % 100>>

vec_push_number(b, value) ==
    b \o <<Len(EncodeDecimal(value))>> \o EncodeDecimal(value)

----------------------------------------------------------------------------
(* Builders *)

NoBuilder ==
    [id |-> 0, kind |-> "none", element_count |-> 0, start_pos |-> 0,
     value_entry_pos |-> 0, value_count |-> 0, depth |-> 0, bw_depth |-> 0,
     bytes_init_len |-> 0]

Outcome(b, self, res) == [bytes |-> b, self |-> self, res |-> res]

\* BytesWrapper::new(bytes): a wrapper of its own for every builder
BytesWrapper_new == 0

\* try_new writing the type tag before the reservation is known to succeed
try_new_tag_first(b, element_count, allocOk) ==
    IF ~allocOk THEN Outcome(push_data_type(b, DT_Array), NoBuilder, "TryReserveError")
    ELSE
      LET b1 == skip_size(push_data_type(b, DT_Array))
          b2 == push_u16(b1, element_count)
          b3 == skip_value_entry(b2, element_count)
      IN Outcome(b3,
                 [id |-> 0, kind |-> "array", element_count |-> element_count,
                  start_pos |-> Len(b1), value_entry_pos |-> Len(b2),
                  value_count |-> 0, depth |-> BytesWrapper_new + 1,
                  bw_depth |-> BytesWrapper_new + 1, bytes_init_len |-> Len(b)],
                 "Ok")

\* try_new recording the node start at the type tag
try_new_start_at_tag(b, element_count, allocOk) ==
    IF ~allocOk THEN Outcome(b, NoBuilder, "TryReserveError")
    ELSE
      LET b1 == skip_size(push_data_type(b, DT_Array))
          b2 == push_u16(b1, element_count)
          b3 == skip_value_entry(b2, element_count)
      IN Outcome(b3,
                 [id |-> 0, kind |-> "array", element_count |-> element_count,
                  start_pos |-> Len(b), value_entry_pos |-> Len(b2),
                  value_count |-> 0, depth |-> BytesWrapper_new + 1,
                  bw_depth |-> BytesWrapper_new + 1, bytes_init_len |-> Len(b)],
                 "Ok")

\* InnerArrayBuilder::try_new.  allocOk is the outcome of bytes.try_reserve.
try_new(b, element_count, allocOk) ==
    IF ~allocOk THEN Outcome(b, NoBuilder, "TryReserveError")
    ELSE
      LET b1 == skip_size(push_data_type(b, DT_Array))
          start_pos == Len(b1)
          b2 == push_u16(b1, element_count)
          value_entry_pos == Len(b2)
          b3 == skip_value_entry(b2, element_count)
          bw_depth == BytesWrapper_new + 1
      IN Outcome(b3,
                 [id |-> 0, kind |-> "array", element_count |-> element_count,
                  start_pos |-> start_pos, value_entry_pos |-> value_entry_pos,
                  value_count |-> 0, depth |-> bw_depth, bw_depth |-> bw_depth,
                  bytes_init_len |-> Len(b)],
                 "Ok")

\* InnerObjectBuilder::try_new (builder/object.rs): the same header, then a
\* key-offset table
object_try_new(b, element_count, allocOk) ==
    IF ~allocOk THEN Outcome(b, NoBuilder, "TryReserveError")
    ELSE
      LET b1 == skip_size(push_data_type(b, DT_Object))
          start_pos == Len(b1)
          b2 == push_u16(b1, element_count)
          key_offset_pos == Len(b2)
          b3 == skip_key_offset(b2, element_count)
          bw_depth == BytesWrapper_new + 1
      IN Outcome(b3,
                 [id |-> 0, kind |-> "object", element_count |-> element_count,
                  start_pos |-> start_pos, value_entry_pos |-> key_offset_pos,
                  value_count |-> 0, depth |-> bw_depth, bw_depth |-> bw_depth,
                  bytes_init_len |-> Len(b)],
                 "Ok")

\* finish measuring the size from the type tag instead of the element count
finish_from_tag(self, b) ==
    IF self.depth # self.bw_depth
    THEN [bytes |-> b, self |-> self, res |-> "InnerUncompletedError",
          expected |-> 0, actual |-> 0]
    ELSE IF self.value_count # self.element_count
    THEN [bytes |-> b, self |-> self, res |-> "InconsistentElementCount",
          expected |-> self.element_count, actual |-> self.value_count]
    ELSE
      LET total_size == Len(b) - self.bytes_init_len
      IN [bytes |-> write_total_size(b, total_size, self.start_pos - ARRAY_SIZE),
          self |-> [self EXCEPT !.bw_depth = @ - 1],
          res |-> "Ok", expected |-> 0, actual |-> 0]

\* finish recording the length of the whole buffer as the node's size
finish_whole_buffer(self, b) ==
    IF self.depth # self.bw_depth
    THEN [bytes |-> b, self |-> self, res |-> "InnerUncompletedError",
          expected |-> 0, actual |-> 0]
    ELSE IF self.value_count # self.element_count
    THEN [bytes |-> b, self |-> self, res |-> "InconsistentElementCount",
          expected |-> self.element_count, actual |-> self.value_count]
    ELSE
      LET total_size == Len(b)
      IN [bytes |-> write_total_size(b, total_size, self.start_pos - ARRAY_SIZE),
          self |-> [self EXCEPT !.bw_depth = @ - 1],
          res |-> "Ok", expected |-> 0, actual |-> 0]

\* finish recording the size of the value data only
finish_data_only(self, b) ==
    IF self.depth # self.bw_depth
    THEN [bytes |-> b, self |-> self, res |-> "InnerUncompletedError",
          expected |-> 0, actual |-> 0]
    ELSE IF self.value_count # self.element_count
    THEN [bytes |-> b, self |-> self, res |-> "InconsistentElementCount",
          expected |-> self.element_count, actual |-> self.value_count]
    ELSE
      LET total_size == Len(b) - self.value_entry_pos
      IN [bytes |-> write_total_size(b, total_size, self.start_pos - ARRAY_SIZE),
          self |-> [self EXCEPT !.bw_depth = @ - 1],
          res |-> "Ok", expected |-> 0, actual |-> 0]

\* finish patching the size field before it checks the element count
finish_patch_first(self, b) ==
    IF self.depth # self.bw_depth
    THEN [bytes |-> b, self |-> self, res |-> "InnerUncompletedError",
          expected |-> 0, actual |-> 0]
    ELSE
      LET total_size == Len(b) - self.start_pos
          b1 == write_total_size(b, total_size, self.start_pos - ARRAY_SIZE)
      IN IF self.value_count # self.element_count
         THEN [bytes |-> b1, self |-> self, res |-> "InconsistentElementCount",
               expected |-> self.element_count, actual |-> self.value_count]
         ELSE [bytes |-> b1, self |-> [self EXCEPT !.bw_depth = @ - 1],
               res |-> "Ok", expected |-> 0, actual |-> 0]

\* InnerArrayBuilder::finish.  expected and actual are the fields of
\* InconsistentElementCount.
finish(self, b) ==
    IF self.depth # self.bw_depth
    THEN [bytes |-> b, self |-> self, res |-> "InnerUncompletedError",
          expected |-> 0, actual |-> 0]
    ELSE IF self.value_count # self.element_count
    THEN [bytes |-> b, self |-> self, res |-> "InconsistentElementCount",
          expected |-> self.element_count, actual |-> self.value_count]
    ELSE
      LET total_size == Len(b) - self.start_pos
      IN [bytes |-> write_total_size(b, total_size, self.start_pos - ARRAY_SIZE),
          self |-> [self EXCEPT !.bw_depth = @ - 1],
          res |-> "Ok", expected |-> 0, actual |-> 0]

\* the closure of push_object and of push_array
push_array_f(b, offset, value_entry_pos) ==
    IF ~InRange(b, value_entry_pos + DATA_TYPE_SIZE, 4)
    THEN [bytes |-> b, res |-> "Panic"]
    ELSE [bytes |-> write_offset(b, offset, value_entry_pos + DATA_TYPE_SIZE),
          res |-> "Ok"]

\* the closure of push_string
push_string_f(b, offset, value_entry_pos, value, allocOk) ==
    IF ~InRange(b, value_entry_pos + DATA_TYPE_SIZE, 4)
    THEN [bytes |-> b, res |-> "Panic"]
    ELSE
      LET b1 == write_offset(b, offset, value_entry_pos + DATA_TYPE_SIZE)
      IN IF ~allocOk THEN [bytes |-> b1, res |-> "TryReserveError"]
         ELSE [bytes |-> vec_push_string(b1, value), res |-> "Ok"]

\* the closure of push_number
push_number_f(b, offset, value_entry_pos, value, allocOk) ==
    IF ~InRange(b, value_entry_pos + DATA_TYPE_SIZE, 4)
    THEN [bytes |-> b, res |-> "Panic"]
    ELSE
      LET b1 == write_offset(b, offset, value_entry_pos + DATA_TYPE_SIZE)
      IN IF ~allocOk THEN [bytes |-> b1, res |-> "TryReserveError"]
         ELSE [bytes |-> vec_push_number(b1, value), res |-> "Ok"]

\* the closure of push_bool: value as u32
push_bool_f(b, offset, value_entry_pos, value) ==
    IF ~InRange(b, value_entry_pos + DATA_TYPE_SIZE, 4)
    THEN [bytes |-> b, res |-> "Panic"]
    ELSE [bytes |-> write_offset(b, IF value THEN 1 ELSE 0,
                                 value_entry_pos + DATA_TYPE_SIZE),
          res |-> "Ok"]

\* push_null clearing the 4-byte field of the entry
push_null_f_clearing(b, offset, value_entry_pos) ==
    IF ~InRange(b, value_entry_pos + DATA_TYPE_SIZE, 4)
    THEN [bytes |-> b, res |-> "Ok"]
    ELSE [bytes |-> write_offset(b, 0, value_entry_pos + DATA_TYPE_SIZE),
          res |-> "Ok"]

\* the closure of push_null
push_null_f(b, offset, value_entry_pos) == [bytes |-> b, res |-> "Ok"]

\* the call f(bytes, offset as u32, self.value_entry_pos) of push_value
call_f(data_type, b, offset, value_entry_pos, value, allocOk) ==
    CASE data_type = DT_Object -> push_array_f(b, offset, value_entry_pos)
      [] data_type = DT_Array -> push_array_f(b, offset, value_entry_pos)
      [] data_type = DT_String ->
           push_string_f(b, offset, value_entry_pos, value, allocOk)
      [] data_type = DT_Number ->
           push_number_f(b, offset, value_entry_pos, value, allocOk)
      [] data_type = DT_Bool -> push_bool_f(b, offset, value_entry_pos, value)
      [] data_type = DT_Null -> push_null_f(b, offset, value_entry_pos)

\* push_value measuring the offset from the start of the buffer
push_value_absolute(self, b, data_type, value, allocOk) ==
    IF self.depth # self.bw_depth THEN Outcome(b, self, "InnerUncompletedError")
    ELSE IF ~InRange(b, self.value_entry_pos, DATA_TYPE_SIZE)
         THEN Outcome(b, self, "Panic")
    ELSE
      LET b1 == write_data_type_by_pos(b, data_type, self.value_entry_pos)
          offset == Len(b1)
          r == call_f(data_type, b1, offset, self.value_entry_pos, value, allocOk)
      IN IF r.res # "Ok" THEN Outcome(r.bytes, self, r.res)
         ELSE Outcome(r.bytes,
                      [self EXCEPT !.value_entry_pos = @ + VALUE_ENTRY_SIZE,
                                   !.value_count = (@ + 1) % U16],
                      "Ok")

\* push_value recording where the data region starts instead of where the
\* value's data starts
push_value_region_start(self, b, data_type, value, allocOk) ==
    IF self.depth # self.bw_depth THEN Outcome(b, self, "InnerUncompletedError")
    ELSE IF ~InRange(b, self.value_entry_pos, DATA_TYPE_SIZE)
         THEN Outcome(b, self, "Panic")
    ELSE
      LET b1 == write_data_type_by_pos(b, data_type, self.value_entry_pos)
          offset == ELEMENT_COUNT_SIZE + VALUE_ENTRY_SIZE * self.element_count
          r == call_f(data_type, b1, offset, self.value_entry_pos, value, allocOk)
      IN IF r.res # "Ok" THEN Outcome(r.bytes, self, r.res)
         ELSE Outcome(r.bytes,
                      [self EXCEPT !.value_entry_pos = @ + VALUE_ENTRY_SIZE,
                                   !.value_count = (@ + 1) % U16],
                      "Ok")

\* InnerArrayBuilder::push_value
push_value(self, b, data_type, value, allocOk) ==
    IF self.depth # self.bw_depth THEN Outcome(b, self, "InnerUncompletedError")
    ELSE IF ~InRange(b, self.value_entry_pos, DATA_TYPE_SIZE)
         THEN Outcome(b, self, "Panic")
    ELSE
      LET b1 == write_data_type_by_pos(b, data_type, self.value_entry_pos)
          offset == Len(b1) - self.start_pos
          r == call_f(data_type, b1, offset, self.value_entry_pos,
                      value, allocOk)
      IN IF r.res # "Ok" THEN Outcome(r.bytes, self, r.res)
         ELSE Outcome(r.bytes,
                      [self EXCEPT !.value_entry_pos = @ + VALUE_ENTRY_SIZE,
                                   !.value_count = (@ + 1) % U16],
                      "Ok")

----------------------------------------------------------------------------
(* State *)

\* the innermost live builder: the only one the borrow rules let be called
Top == stack[Len(stack)]

\* bookkeeping of the nodes written to the buffer, one record a builder:
\* where the node lies, which builder returned it, what became of its
\* builder, how many pushes on it returned Ok, which positions they wrote
\* and, in the order of the pushes, the tag and the bytes each appended
Node(kind, parent, owned, self) ==
    [kind |-> kind, parent |-> parent, owned |-> owned,
     tag_pos |-> self.bytes_init_len, start |-> self.start_pos,
     declared |-> self.element_count, status |-> "open", end |-> 0,
     pushed |-> 0, wrote |-> {}, regions |-> << >>]

\* builder id has returned a nested builder that has not finished
InnerOpen(id) ==
    \E n \in 1..Len(nodes) : nodes[n].parent = id /\ nodes[n].status # "finished"

\* record of the last call: the builder before and after, the buffer before,
\* the result
Call(op, res, pre, post, data, flag) ==
    [op |-> op, id |-> pre.id, res |-> res, pre |-> pre, post |-> post,
     old_bytes |-> bytes, inner_open |-> pre.id # 0 /\ InnerOpen(pre.id),
     data |-> data, flag |-> flag, expected |-> 0, actual |-> 0, view |-> << >>]

NoCall ==
    [op |-> "none", id |-> 0, res |-> "Ok", pre |-> NoBuilder, post |-> NoBuilder,
     old_bytes |-> << >>, inner_open |-> FALSE, data |-> << >>, flag |-> FALSE,
     expected |-> 0, actual |-> 0, view |-> << >>]

\* unwinding drops every live builder
Unwound == [n \in 1..Len(nodes) |->
              IF nodes[n].status = "open"
              THEN [nodes[n] EXCEPT !.status = "abandoned"] ELSE nodes[n]]

\* the type tag a push_* hands to push_value
TagOf(op) ==
    CASE op = "push_object" -> DT_Object
      [] op = "push_array" -> DT_Array
      [] op = "push_string" -> DT_String
      [] op = "push_number" -> DT_Number
      [] op = "push_bool" -> DT_Bool
      [] op = "push_null" -> DT_Null

\* the twin before any call; init_bytes is what the caller's buffer held
\* when the top-level builder was created on it
NoTwin == [init_bytes |-> << >>, bytes |-> << >>, stack |-> << >>, res |-> "Ok"]

\* the value of Strings or Numbers whose encoding is data
ValueOf(op, data) ==
    CASE op = "push_string" -> CHOOSE v \in Strings : vec_push_string(<< >>, v) = data
      [] op = "push_number" -> CHOOSE v \in Numbers : vec_push_number(<< >>, v) = data
      [] OTHER -> FALSE

\* the call just made (call, which left the builders new_stack), made on the
\* twin t: ArrayBuilder::try_new for the top-level create, then the same
\* push_*, finish or drop on the twin's innermost live builder
Mirror(t, call, new_stack) ==
    LET allocOk == call.res # "TryReserveError"
        top == t.stack[Len(t.stack)]
        rest == SubSeq(t.stack, 1, Len(t.stack) - 1)
        pushed(r) ==
            [t EXCEPT !.bytes = r.bytes, !.res = r.res,
                      !.stack = IF r.res = "Panic" THEN << >>
                                ELSE Append(rest, r.self)]
    IN CASE call.op = "try_new" ->
              LET r == try_new(<< >>, call.post.element_count, allocOk)
              IN [init_bytes |-> call.old_bytes,
                  bytes |-> r.bytes,
                  stack |-> IF r.res = "Ok" THEN <<r.self>> ELSE << >>,
                  res |-> r.res]
         [] call.op \in {"push_string", "push_number"} ->
              pushed(push_value(top, t.bytes, TagOf(call.op),
                                ValueOf(call.op, call.data), allocOk))
         [] call.op = "push_bool" ->
              pushed(push_value(top, t.bytes, DT_Bool, call.flag, TRUE))
         [] call.op = "push_null" ->
              pushed(push_value(top, t.bytes, DT_Null, FALSE, TRUE))
         [] call.op \in {"push_array", "push_object"} ->
              LET r == push_value(top, t.bytes, TagOf(call.op), FALSE, TRUE)
                  count == new_stack[Len(new_stack)].element_count
                  r2 == IF call.op = "push_array"
                        THEN try_new(r.bytes, count, allocOk)
                        ELSE object_try_new(r.bytes, count, allocOk)
              IN IF r.res # "Ok" THEN pushed(r)
                 ELSE [t EXCEPT !.bytes = r2.bytes, !.res = r2.res,
                                !.stack = IF r2.res = "Ok"
                                          THEN Append(Append(rest, r.self), r2.self)
                                          ELSE Append(rest, r.self)]
         [] call.op = "finish" ->
              LET r == finish(top, t.bytes)
              IN [t EXCEPT !.bytes = r.bytes, !.res = r.res, !.stack = rest]
         [] call.op = "drop" -> [t EXCEPT !.res = "Ok", !.stack = rest]

\* ArrayBuilder::finish hands out the whole buffer
ArrayBuilder_finish(r) == r.bytes

\* ArrayRefBuilder::finish hands out the bytes from bytes_init_len on
ArrayRefBuilder_finish_whole(r) == r.bytes

ArrayRefBuilder_finish(r) ==
    SubSeq(r.bytes, r.self.bytes_init_len + 1, Len(r.bytes))

Init ==
    /\ bytes = << >>
    /\ stack = << >>
    /\ phase = "init"
    /\ nodes = << >>
    /\ last = NoCall
    /\ twin = NoTwin

\* ArrayBuilder::try_new(element_count)
ArrayBuilder_try_new ==
    /\ phase = "init"
    /\ \E element_count \in ElementCounts, capOk \in BOOLEAN, allocOk \in BOOLEAN :
         LET r == try_new(<< >>, element_count, allocOk)
             self == [r.self EXCEPT !.id = 1]
         IN IF capOk /\ r.res = "Ok"
            THEN /\ bytes' = r.bytes
                 /\ stack' = <<self>>
                 /\ phase' = "building"
                 /\ nodes' = <<Node("array", 0, TRUE, self)>>
                 /\ last' = Call("try_new", "Ok", NoBuilder, self, << >>, TRUE)
            ELSE /\ bytes' = << >>
                 /\ phase' = "done"
                 /\ last' = Call("try_new", "TryReserveError", NoBuilder,
                                 NoBuilder, << >>, TRUE)
                 /\ UNCHANGED <<stack, nodes>>
    /\ twin' = Mirror(twin, last', stack')

\* ArrayRefBuilder::try_new(bytes, element_count) on a caller's buffer
ArrayRefBuilder_try_new ==
    /\ phase = "init"
    /\ \E prefix \in Prefixes, element_count \in ElementCounts, allocOk \in BOOLEAN :
         LET r == try_new(prefix, element_count, allocOk)
             self == [r.self EXCEPT !.id = 1]
             call == [Call("try_new", r.res, NoBuilder,
                           IF r.res = "Ok" THEN self ELSE NoBuilder, << >>, FALSE)
                      EXCEPT !.old_bytes = prefix]
         IN /\ bytes' = r.bytes
            /\ last' = call
            /\ IF r.res = "Ok"
               THEN /\ stack' = <<self>>
                    /\ phase' = "building"
                    /\ nodes' = <<Node("array", 0, FALSE, self)>>
               ELSE /\ phase' = "done"
                    /\ UNCHANGED <<stack, nodes>>
    /\ twin' = Mirror(twin, last', stack')

\* a call on the innermost live builder can be made
CanPush ==
    /\ phase = "building"
    /\ Top.kind = "array"
    /\ Len(bytes) < MaxLen
    /\ Top.value_count < MaxCount + 1

\* positions of the buffer that a push wrote: its entry slot and what it
\* appended
Wrote(pre, new_bytes) ==
    (pre.value_entry_pos .. pre.value_entry_pos + VALUE_ENTRY_SIZE - 1)
      \cup (Len(bytes) .. Len(new_bytes) - 1)

\* what a successful push appended: Rust positions begin .. end - 1
Region(op, new_bytes) ==
    [tag |-> TagOf(op), begin |-> Len(bytes), end |-> Len(new_bytes)]

\* effect of a push_string, push_number, push_bool or push_null
Pushed(op, r, data, flag) ==
    /\ bytes' = r.bytes
    /\ last' = Call(op, r.res, Top, r.self, data, flag)
    /\ IF r.res = "Panic"
       THEN /\ stack' = << >>
            /\ phase' = "panicked"
            /\ nodes' = Unwound
       ELSE /\ stack' = [stack EXCEPT ![Len(stack)] = r.self]
            /\ phase' = phase
            /\ nodes' = IF r.res = "Ok"
                        THEN [nodes EXCEPT ![Top.id].pushed = @ + 1,
                                           ![Top.id].wrote = @ \cup Wrote(Top, r.bytes),
                                           ![Top.id].regions =
                                               Append(@, Region(op, r.bytes))]
                        ELSE nodes

\* push_string(value)
push_string ==
    /\ CanPush
    /\ \E value \in Strings, allocOk \in BOOLEAN :
         Pushed("push_string", push_value(Top, bytes, DT_String, value, allocOk),
                vec_push_string(<< >>, value), FALSE)
    /\ twin' = Mirror(twin, last', stack')

\* push_number(value)
push_number ==
    /\ CanPush
    /\ \E value \in Numbers, allocOk \in BOOLEAN :
         Pushed("push_number", push_value(Top, bytes, DT_Number, value, allocOk),
                vec_push_number(<< >>, value), FALSE)
    /\ twin' = Mirror(twin, last', stack')

\* push_bool(value)
push_bool ==
    /\ CanPush
    /\ \E value \in BOOLEAN :
         Pushed("push_bool", push_value(Top, bytes, DT_Bool, value, TRUE),
                << >>, value)
    /\ twin' = Mirror(twin, last', stack')

\* push_null()
push_null ==
    /\ CanPush
    /\ Pushed("push_null", push_value(Top, bytes, DT_Null, FALSE, TRUE),
              << >>, FALSE)
    /\ twin' = Mirror(twin, last', stack')

\* effect of push_array and push_object: push_value, then the nested
\* builder's try_new on the same buffer
PushedNested(op, kind, r, r2) ==
    LET id == Len(nodes) + 1
        inner == [r2.self EXCEPT !.id = id]
    IN IF r.res # "Ok" THEN Pushed(op, r, << >>, FALSE)
       ELSE /\ bytes' = r2.bytes
            /\ phase' = phase
            /\ last' = Call(op, r2.res, Top, r.self, << >>, FALSE)
            /\ IF r2.res = "Ok"
               THEN /\ stack' = Append([stack EXCEPT ![Len(stack)] = r.self], inner)
                    /\ nodes' = Append(
                         [nodes EXCEPT ![Top.id].pushed = @ + 1,
                                       ![Top.id].wrote = @ \cup Wrote(Top, r2.bytes),
                                       ![Top.id].regions =
                                           Append(@, Region(op, r2.bytes))],
                         Node(kind, Top.id, FALSE, inner))
               ELSE /\ stack' = [stack EXCEPT ![Len(stack)] = r.self]
                    /\ nodes' = nodes

\* push_array(element_count)
push_array ==
    /\ CanPush
    /\ Len(stack) < MaxDepth
    /\ Len(nodes) < MaxNodes
    /\ \E element_count \in ElementCounts, allocOk \in BOOLEAN :
         LET r == push_value(Top, bytes, DT_Array, FALSE, TRUE)
         IN PushedNested("push_array", "array", r,
                         try_new(r.bytes, element_count, allocOk))
    /\ twin' = Mirror(twin, last', stack')

\* push_object(element_count, key_sorted)
push_object ==
    /\ CanPush
    /\ Len(stack) < MaxDepth
    /\ Len(nodes) < MaxNodes
    /\ \E element_count \in ObjectCounts, allocOk \in BOOLEAN :
         LET r == push_value(Top, bytes, DT_Object, FALSE, TRUE)
         IN PushedNested("push_object", "object", r,
                         object_try_new(r.bytes, element_count, allocOk))
    /\ twin' = Mirror(twin, last', stack')

\* ArrayBuilder::finish / ArrayRefBuilder::finish (and the object builder's):
\* the builder is consumed whatever the result
Builder_finish ==
    /\ phase = "building"
    /\ LET r == finish(Top, bytes)
       IN /\ bytes' = r.bytes
          /\ stack' = SubSeq(stack, 1, Len(stack) - 1)
          /\ phase' = IF Len(stack) = 1 THEN "done" ELSE "building"
          /\ nodes' = [nodes EXCEPT ![Top.id].status =
                                        IF r.res = "Ok" THEN "finished" ELSE "failed",
                                    ![Top.id].end = Len(r.bytes)]
          /\ last' = [Call("finish", r.res, Top, r.self, << >>, FALSE)
                       EXCEPT !.expected = r.expected, !.actual = r.actual,
                              !.view = IF r.res # "Ok" THEN << >>
                                       ELSE IF nodes[Top.id].owned
                                       THEN ArrayBuilder_finish(r)
                                       ELSE ArrayRefBuilder_finish(r)]
    /\ twin' = Mirror(twin, last', stack')

\* a builder goes out of scope without finish
Drop ==
    /\ phase = "building"
    /\ stack' = SubSeq(stack, 1, Len(stack) - 1)
    /\ phase' = IF Len(stack) = 1 THEN "done" ELSE "building"
    /\ nodes' = [nodes EXCEPT ![Top.id].status = "abandoned"]
    /\ last' = Call("drop", "Ok", Top, Top, << >>, FALSE)
    /\ UNCHANGED bytes
    /\ twin' = Mirror(twin, last', stack')

Next ==
    \/ ArrayBuilder_try_new
    \/ ArrayRefBuilder_try_new
    \/ push_string
    \/ push_number
    \/ push_bool
    \/ push_null
    \/ push_array
    \/ push_object
    \/ Builder_finish
    \/ Drop

Spec == Init /\ [][Next]_vars

-----------------------------------------------------------------------------
(* Builds within the declared counts: an owning builder of a 3-element     *)
(* array, whose nested arrays are declared with 1 element, with every      *)
(* reservation succeeding.                                                 *)

ScenarioCounts == {3}

InnerCounts == {1}

\* a push on the innermost live builder that its declared count has room for
ScenarioCanPush ==
    /\ phase = "building"
    /\ Top.kind = "array"
    /\ Top.value_count < Top.element_count

\* ArrayBuilder::try_new(3)
Scenario_try_new ==
    /\ phase = "init"
    /\ \E element_count \in ScenarioCounts :
         LET r == try_new(<< >>, element_count, TRUE)
             self == [r.self EXCEPT !.id = 1]
         IN /\ bytes' = r.bytes
            /\ stack' = <<self>>
            /\ phase' = "building"
            /\ nodes' = <<Node("array", 0, TRUE, self)>>
            /\ last' = Call("try_new", "Ok", NoBuilder, self, << >>, TRUE)
    /\ twin' = Mirror(twin, last', stack')

Scenario_push_string ==
    /\ ScenarioCanPush
    /\ \E value \in Strings :
         Pushed("push_string", push_value(Top, bytes, DT_String, value, TRUE),
                vec_push_string(<< >>, value), FALSE)
    /\ twin' = Mirror(twin, last', stack')

Scenario_push_number ==
    /\ ScenarioCanPush
    /\ \E value \in Numbers :
         Pushed("push_number", push_value(Top, bytes, DT_Number, value, TRUE),
                vec_push_number(<< >>, value), FALSE)
    /\ twin' = Mirror(twin, last', stack')

Scenario_push_bool ==
    /\ ScenarioCanPush
    /\ \E value \in BOOLEAN :
         Pushed("push_bool", push_value(Top, bytes, DT_Bool, value, TRUE),
                << >>, value)
    /\ twin' = Mirror(twin, last', stack')

\* push_array(1) on the top-level builder
Scenario_push_array ==
    /\ ScenarioCanPush
    /\ Len(stack) = 1
    /\ \E element_count \in InnerCounts :
         LET r == push_value(Top, bytes, DT_Array, FALSE, TRUE)
         IN PushedNested("push_array", "array", r,
                         try_new(r.bytes, element_count, TRUE))
    /\ twin' = Mirror(twin, last', stack')

ScenarioNext ==
    \/ Scenario_try_new
    \/ Scenario_push_string
    \/ Scenario_push_number
    \/ Scenario_push_bool
    \/ Scenario_push_array
    \/ Builder_finish

SpecScenario == Init /\ [][ScenarioNext]_vars

TypeOK ==
    /\ \A i \in 1..Len(bytes) : bytes[i] \in 0..255
    /\ phase \in {"init", "building", "panicked", "done"}
    /\ Len(stack) <= MaxDepth

----------------------------------------------------------------------------
(* Properties *)

PushOps ==
    {"push_string", "push_number", "push_bool", "push_null", "push_array",
     "push_object"}

\* the size field of the node whose element-count field is at Rust position
\* start, as a reader decodes it
SizeField(b, start) == FromLE(Slice(b, start - ARRAY_SIZE, ARRAY_SIZE))

\* the 4-byte field of the entry at Rust position pos
EntryField(b, pos) == FromLE(Slice(b, pos + DATA_TYPE_SIZE, 4))

\* C1: while a nested builder returned by builder A has not finished, every
\* push_* and finish called on A fails with InnerUncompletedError.
C1_NestingEnforced ==
    (last.op \in PushOps \cup {"finish"} /\ last.pre.kind = "array"
       /\ last.inner_open)
      => last.res = "InnerUncompletedError"

\* C2: a builder's finish succeeds only if every nested builder it returned
\* has finished successfully, so no finished node holds a nested node whose
\* size field is still the placeholder.
C2_FinishNeedsFinishedChildren ==
    \A n \in 1..Len(nodes) :
      (nodes[n].status = "finished" /\ nodes[n].kind = "array") =>
        \A c \in 1..Len(nodes) :
          nodes[c].parent = n =>
            /\ nodes[c].status = "finished"
            /\ Slice(bytes, nodes[c].start - ARRAY_SIZE, ARRAY_SIZE)
                 # Zeros(ARRAY_SIZE)

\* C3: with no nested builder open, finish succeeds exactly when the number
\* of values pushed equals the declared element count, and otherwise fails
\* with InconsistentElementCount {expected: declared, actual: pushed}.
C3_CountEnforcedAtFinish ==
    (last.op = "finish" /\ last.pre.kind = "array" /\ ~last.inner_open) =>
      /\ (last.res = "Ok") <=> (nodes[last.id].pushed = nodes[last.id].declared)
      /\ last.res # "Ok" =>
           /\ last.res = "InconsistentElementCount"
           /\ last.expected = nodes[last.id].declared
           /\ last.actual = nodes[last.id].pushed

\* C4: a push_* on an array that already holds its declared count of values
\* fails, writing nothing.
C4_PushOnFullArrayRejected ==
    (last.op \in PushOps /\ last.pre.value_count >= last.pre.element_count) =>
      /\ last.res # "Ok"
      /\ last.res # "Panic" => bytes = last.old_bytes

\* Rust position of the element-count field of the node whose type tag is at
\* Rust position tag_pos
CountFieldPos(tag_pos) == tag_pos + DATA_TYPE_SIZE + ARRAY_SIZE

\* C5: when finish succeeds on an array node, wherever in the buffer it
\* starts, the size field just before its element-count field holds the
\* number of bytes from the element-count field to the buffer end, the nodes
\* nested in it included.
C5_SizeFieldIsSpan ==
    (last.op = "finish" /\ last.res = "Ok" /\ last.pre.kind = "array") =>
      SizeField(bytes, CountFieldPos(nodes[last.id].tag_pos))
        = Len(bytes) - CountFieldPos(nodes[last.id].tag_pos)

\* a top-level array on a caller's buffer finishes after a nested array that
\* holds a value finished
C5_Witness ==
    /\ last.op = "finish" /\ last.res = "Ok"
    /\ nodes[last.id].parent = 0 /\ nodes[last.id].tag_pos > 0
    /\ \E c \in 1..Len(nodes) :
         /\ nodes[c].parent = last.id /\ nodes[c].kind = "array"
         /\ nodes[c].status = "finished" /\ nodes[c].declared > 0

\* C6: after a successful push of a string, number, array or object into
\* entry i (i values were counted before it), the 4-byte field of entry i is the position of the first byte of the
\* value's data minus the position of the node's element-count field; a
\* nested array begins there with its own Array tag, the tag of entry i.
C6_EntryOffsets ==
    (last.res = "Ok"
       /\ last.op \in {"push_string", "push_number", "push_array", "push_object"}) =>
      LET count_pos == CountFieldPos(nodes[last.id].tag_pos)
          entry == count_pos + ELEMENT_COUNT_SIZE
                     + VALUE_ENTRY_SIZE * last.pre.value_count
          data_pos == Len(last.old_bytes)
      IN /\ EntryField(bytes, entry) = data_pos - count_pos
         /\ last.op \in {"push_string", "push_number"} =>
              /\ Len(bytes) = data_pos + Len(last.data)
              /\ Slice(bytes, data_pos, Len(last.data)) = last.data
         /\ last.op = "push_array" =>
              /\ bytes[data_pos + 1] = DT_Array
              /\ bytes[entry + 1] = DT_Array
         /\ last.op = "push_object" =>
              /\ bytes[data_pos + 1] = DT_Object
              /\ bytes[entry + 1] = DT_Object

\* a nested array pushed into an array that lies behind a prefix
C6_Witness ==
    /\ last.op = "push_array" /\ last.res = "Ok"
    /\ nodes[last.id].tag_pos > 0
    /\ Len(bytes) > Len(last.old_bytes)

\* C7: once a node's finish has succeeded, no later call changes a byte of
\* the node (from its type tag to the end of its data).
C7_SealedNodesImmutable ==
    \A n \in 1..Len(nodes) :
      (nodes[n].status = "finished" /\ ~(last.op = "finish" /\ last.id = n)) =>
        Slice(bytes, nodes[n].tag_pos, nodes[n].end - nodes[n].tag_pos)
          = Slice(last.old_bytes, nodes[n].tag_pos, nodes[n].end - nodes[n].tag_pos)

\* C8: a create or push_* whose reservation fails leaves the buffer's content
\* and length as they were before the call.
C8_NoWriteOnFailedReservation ==
    last.res = "TryReserveError" => bytes = last.old_bytes

\* C8 as amended: a create whose reservation fails leaves the buffer as it
\* was; a push_* whose reservation fails leaves the length as it was and
\* every byte outside the 5-byte entry at the entry cursor as it was.
C8_FailedReservationAppendsNothing ==
    last.res = "TryReserveError" =>
      /\ Len(bytes) = Len(last.old_bytes)
      /\ last.op = "try_new" => bytes = last.old_bytes
      /\ \A i \in 1..Len(bytes) :
           (i - 1 < last.pre.value_entry_pos
              \/ i - 1 >= last.pre.value_entry_pos + VALUE_ENTRY_SIZE) =>
             bytes[i] = last.old_bytes[i]

\* a push_string fails on its reservation having changed the entry
C8_Witness ==
    /\ last.op = "push_string" /\ last.res = "TryReserveError"
    /\ bytes # last.old_bytes

\* C9: when a push fails on allocation, every byte written by the earlier
\* successful pushes of the builder keeps its value.
C9_EarlierPushesKept ==
    (last.op \in PushOps /\ last.res = "TryReserveError") =>
      \A p \in nodes[last.id].wrote : bytes[p + 1] = last.old_bytes[p + 1]

\* C10: push_bool and push_null leave the length as it was and change no
\* byte outside the 5 bytes of the current entry; push_bool stores the Bool
\* tag and 1 or 0 in the 4-byte field, push_null stores the Null tag and
\* leaves the 4-byte field as it was.
C10_InlineValues ==
    last.op \in {"push_bool", "push_null"} =>
      LET entry == last.pre.value_entry_pos
      IN /\ Len(bytes) = Len(last.old_bytes)
         /\ \A i \in 1..Len(bytes) :
              (i - 1 < entry \/ i - 1 >= entry + VALUE_ENTRY_SIZE) =>
                bytes[i] = last.old_bytes[i]
         /\ (last.op = "push_bool" /\ last.res = "Ok") =>
              /\ bytes[entry + 1] = DT_Bool
              /\ EntryField(bytes, entry) = IF last.flag THEN 1 ELSE 0
         /\ (last.op = "push_null" /\ last.res = "Ok") =>
              /\ bytes[entry + 1] = DT_Null
              /\ \A i \in 1..Len(bytes) :
                   (i - 1 > entry /\ i - 1 < entry + VALUE_ENTRY_SIZE) =>
                     bytes[i] = last.old_bytes[i]

\* push_null succeeds on an entry whose 4-byte field a failed push_string
\* had filled in
C10_Witness ==
    /\ last.op = "push_null" /\ last.res = "Ok"
    /\ last.pre.value_count < last.pre.element_count
    /\ EntryField(last.old_bytes, last.pre.value_entry_pos) # 0

DataTags == {DT_Object, DT_Array, DT_String, DT_Number}

\* Rust position of entry slot i (from 0) of the node whose type tag is at
\* Rust position tag_pos
SlotPos(tag_pos, i) ==
    CountFieldPos(tag_pos) + ELEMENT_COUNT_SIZE + VALUE_ENTRY_SIZE * i

\* C11: in an array whose entries were filled in order by pushed values (up
\* to all N declared), the data that the offset of a string, number, array
\* or object entry i points to begins after the end of what every earlier
\* entry's push appended and of every earlier nested node, and the offsets
\* of such entries strictly increase with i.
C11_EntryOrdering ==
    \A k \in 1..Len(stack) :
      LET s == stack[k]
          n == nodes[s.id]
      IN (s.kind = "array" /\ s.value_count = n.pushed
            /\ s.value_count <= s.element_count) =>
           \A j \in 2..s.value_count :
             n.regions[j].tag \in DataTags =>
               LET at == CountFieldPos(n.tag_pos)
                          + EntryField(bytes, SlotPos(n.tag_pos, j - 1))
               IN \A i \in 1..(j - 1) :
                    /\ at >= n.regions[i].end
                    /\ n.regions[i].tag \in DataTags =>
                         /\ at > n.regions[i].begin
                         /\ EntryField(bytes, SlotPos(n.tag_pos, i - 1))
                              < EntryField(bytes, SlotPos(n.tag_pos, j - 1))
                    /\ \A c \in 1..Len(nodes) :
                         (nodes[c].parent = s.id
                            /\ n.regions[i].tag \in {DT_Array, DT_Object}
                            /\ nodes[c].tag_pos = n.regions[i].begin
                            /\ nodes[c].status = "finished") =>
                           at >= nodes[c].end

\* an array declared with 2 elements holds a finished nested array, then a
\* string
C11_Witness ==
    /\ phase = "building" /\ Len(stack) = 1
    /\ Top.element_count = 2 /\ Top.value_count = 2
    /\ nodes[Top.id].pushed = 2
    /\ nodes[Top.id].regions[1].tag = DT_Array
    /\ nodes[Top.id].regions[2].tag = DT_String
    /\ \E c \in 1..Len(nodes) :
         nodes[c].parent = Top.id /\ nodes[c].status = "finished"

\* C14: a create(N) that succeeds, top-level or nested, appends exactly
\* 1 + 4 + 2 + 5 * N bytes: the Array tag, the size placeholder, the count N
\* and N entry slots; the builder's node start is the position of the
\* element-count field, its value count 0, its depth counter one more than
\* a new wrapper's.
C14_CreateLayout ==
    (last.res = "Ok" /\ last.op \in {"try_new", "push_array"}) =>
      LET at == Len(last.old_bytes)
          n == nodes[Top.id].declared
      IN /\ Len(bytes) = at + DATA_TYPE_SIZE + ARRAY_SIZE + ELEMENT_COUNT_SIZE
                           + VALUE_ENTRY_SIZE * n
         /\ bytes[at + 1] = DT_Array
         /\ FromLE(Slice(bytes, CountFieldPos(at), ELEMENT_COUNT_SIZE)) = n
         /\ Top.element_count = n
         /\ Top.start_pos = CountFieldPos(at)
         /\ Top.value_entry_pos = CountFieldPos(at) + ELEMENT_COUNT_SIZE
         /\ Top.value_count = 0
         /\ Top.bw_depth = BytesWrapper_new + 1
         /\ Top.depth = Top.bw_depth

\* a nested array of two elements is created behind other bytes
C14_Witness ==
    /\ last.op = "push_array" /\ last.res = "Ok"
    /\ Top.element_count = 2
    /\ nodes[Top.id].parent # 0

\* C15: the depth counter seen by a builder counts the builders open on the
\* buffer: one more for every nested builder created and not yet finished,
\* and the builder's own snapshot again once they have finished.
C15_DepthCounterShared ==
    /\ \A i \in 1..Len(stack) :
         stack[i].bw_depth = stack[i].depth + (Len(stack) - i)
    /\ (last.op \in PushOps \cup {"finish"} /\ ~last.inner_open) =>
         last.res # "InnerUncompletedError"

\* C16: the entry cursor of a builder is node start + 2 + 5 * value count;
\* the k-th successful push (k <= declared count) writes entry slot k - 1 and
\* no other byte of the buffer as it was, appends its data at the end, and
\* advances the cursor by one slot and the value count by one.
C16_LeftToRight ==
    /\ \A i \in 1..Len(stack) :
         stack[i].kind = "array" =>
           stack[i].value_entry_pos
             = stack[i].start_pos + ELEMENT_COUNT_SIZE
                 + VALUE_ENTRY_SIZE * stack[i].value_count
    /\ (last.op \in PushOps /\ last.res = "Ok"
          /\ nodes[last.id].pushed <= nodes[last.id].declared) =>
         LET slot == CountFieldPos(nodes[last.id].tag_pos) + ELEMENT_COUNT_SIZE
                       + VALUE_ENTRY_SIZE * (nodes[last.id].pushed - 1)
         IN /\ last.pre.value_entry_pos = slot
            /\ Len(bytes) >= Len(last.old_bytes)
            /\ \A i \in 1..Len(last.old_bytes) :
                 bytes[i] # last.old_bytes[i] =>
                   (i - 1 >= slot /\ i - 1 < slot + VALUE_ENTRY_SIZE)
            /\ last.post.value_entry_pos = last.pre.value_entry_pos + VALUE_ENTRY_SIZE
            /\ last.post.value_count = last.pre.value_count + 1

\* C17: a push_* that returns an error leaves the builder's value count and
\* entry cursor as they were, so the value count is the number of pushes
\* that returned Ok.
C17_FailedPushNotCounted ==
    /\ (last.op \in PushOps /\ last.res # "Ok") =>
         /\ last.post.value_count = last.pre.value_count
         /\ last.post.value_entry_pos = last.pre.value_entry_pos
    /\ \A i \in 1..Len(stack) :
         stack[i].kind = "array" =>
           stack[i].value_count = nodes[stack[i].id].pushed

\* C18: a finish that returns InnerUncompletedError or
\* InconsistentElementCount changes no byte of the buffer and leaves the
\* builder's depth counter, value count and entry cursor as they were.
C18_FailedFinishChangesNothing ==
    (last.op = "finish" /\ last.pre.kind = "array"
       /\ last.res \in {"InnerUncompletedError", "InconsistentElementCount"}) =>
      /\ bytes = last.old_bytes
      /\ last.post.bw_depth = last.pre.bw_depth
      /\ last.post.value_count = last.pre.value_count
      /\ last.post.value_entry_pos = last.pre.value_entry_pos

\* finish fails on a nested array that lacks a value: its size field is
\* still the placeholder
C18_Witness ==
    /\ last.op = "finish" /\ last.res = "InconsistentElementCount"
    /\ last.pre.kind = "array"
    /\ nodes[last.id].parent # 0
    /\ last.pre.value_count < last.pre.element_count
    /\ Slice(bytes, last.pre.start_pos - ARRAY_SIZE, ARRAY_SIZE) = Zeros(ARRAY_SIZE)

\* the top-level builder works on a caller's buffer
Borrowing == nodes # << >> /\ ~nodes[1].owned

\* C13: the bytes a document gets do not depend on where in the buffer it is
\* built: whatever the caller's buffer held, after every call the buffer is
\* that content followed by exactly the bytes the same calls give an owning
\* builder, and each call returns what it returns there
C13_PositionIndependent ==
    Borrowing =>
      /\ bytes = twin.init_bytes \o twin.bytes
      /\ last.res = twin.res

\* C13 witness: a document holding a finished nested array and a string
\* has been finished behind a non-empty prefix
C13_Witness ==
    /\ Borrowing /\ twin.init_bytes # << >>
    /\ last.op = "finish" /\ last.id = 1 /\ last.res = "Ok"
    /\ nodes[1].pushed = 2
    /\ nodes[1].regions[1].tag = DT_Array
    /\ nodes[1].regions[2].tag = DT_String
    /\ \E c \in 1..Len(nodes) : nodes[c].parent = 1 /\ nodes[c].status = "finished"

\* C19: a borrowing builder leaves what the caller's buffer held in place
\* in front of the document, the document starts right behind it, and a
\* successful finish of the top-level builder hands out exactly the bytes
\* behind it, which start with the array type tag
C19_BorrowedPrefixKept ==
    Borrowing =>
      LET L == Len(twin.init_bytes) IN
        /\ Len(bytes) >= L
        /\ SubSeq(bytes, 1, L) = twin.init_bytes
        /\ nodes[1].tag_pos = L
        /\ (last.op = "finish" /\ last.id = 1 /\ last.res = "Ok") =>
             /\ last.view = SubSeq(bytes, L + 1, Len(bytes))
             /\ last.view[1] = DT_Array

\* C19 witness: a borrowing builder on a non-empty buffer has finished a
\* non-empty array
C19_Witness ==
    /\ Borrowing /\ twin.init_bytes # << >>
    /\ last.op = "finish" /\ last.id = 1 /\ last.res = "Ok"
    /\ nodes[1].declared > 0
    /\ Len(last.view) < Len(bytes)

\* the bytes appended by the j-th counted push into node n
DataOf(n, j) ==
    SubSeq(bytes, n.regions[j].begin + 1, n.regions[j].end)

\* C12 witness: the array declared with 3 elements holds "abc", true and a
\* nested array declared with 1 element holding 42; the inner array and then
\* the outer array have finished
C12_Witness ==
    /\ last.op = "finish" /\ last.id = 1 /\ last.res = "Ok"
    /\ Len(nodes) = 2
    /\ nodes[1].declared = 3 /\ nodes[1].pushed = 3
    /\ nodes[1].regions[1].tag = DT_String
    /\ DataOf(nodes[1], 1) = vec_push_string(<< >>, <<97, 98, 99>>)
    /\ nodes[1].regions[2].tag = DT_Bool
    /\ EntryField(bytes, SlotPos(nodes[1].tag_pos, 1)) = 1
    /\ nodes[1].regions[3].tag = DT_Array
    /\ nodes[2].parent = 1 /\ nodes[2].status = "finished"
    /\ nodes[2].declared = 1 /\ nodes[2].pushed = 1
    /\ nodes[2].regions[1].tag = DT_Number
    /\ DataOf(nodes[2], 1) = vec_push_number(<< >>, 42)

\* C12 as stated: in the scenario the outer size field is
\* 2 + 3*5 + (encoded length of "abc") + 0 + the value of the inner array's
\* size field
C12_ScenarioSize ==
    C12_Witness =>
      SizeField(bytes, CountFieldPos(nodes[1].tag_pos))
        = ELEMENT_COUNT_SIZE + 3 * VALUE_ENTRY_SIZE
            + Len(vec_push_string(<< >>, <<97, 98, 99>>)) + 0
            + SizeField(bytes, CountFieldPos(nodes[2].tag_pos))

\* C12 amended: in the scenario the outer size field is
\* 2 + 3*5 + (encoded length of "abc") + 0 + the bytes of the inner node,
\* which are its type tag (1), its size field (4) and the value of its size
\* field
C12_ScenarioSizeWholeInnerNode ==
    C12_Witness =>
      SizeField(bytes, CountFieldPos(nodes[1].tag_pos))
        = ELEMENT_COUNT_SIZE + 3 * VALUE_ENTRY_SIZE
            + Len(vec_push_string(<< >>, <<97, 98, 99>>)) + 0
            + (DATA_TYPE_SIZE + ARRAY_SIZE
                 + SizeField(bytes, CountFieldPos(nodes[2].tag_pos)))

====
